---- MODULE Spec2Model ----
(***************************************************************************)
(* Model of Assignment 7/dl_assignment_7_common.py: the dataset split of   *)
(* get_dataset, the architecture factory create_network and the training   *)
(* loop train (with evaluate / evaluate_loss).                             *)
(***************************************************************************)
EXTENDS Integers, Naturals, Sequences, FiniteSets, TLC

(***************************************************************************)
(* Bounds of the model.                                                    *)
(***************************************************************************)
MaxN == 11           \* largest train/validation dataset length in Spec
MaxTestN == 1        \* largest test dataset length in Spec
MaxBatchSize == 2    \* largest batch_size
MaxEpochs == 2       \* largest epochs argument
MaxEvalEvery == 2    \* largest eval_every_n_epochs argument
MaxSplitN == 100     \* largest dataset length in SpecDataset
MaxClasses == 2      \* largest keyword value in SpecFactory

(***************************************************************************)
(* IEEE-754 binary64 arithmetic, as far as get_dataset uses it: products   *)
(* of non-negative finite doubles, floor and ceil.  A double is            *)
(* [m |-> mantissa, e |-> exponent] with value m * 2^e and m < 2^53; the   *)
(* mantissa is a tuple of four base-2^14 limbs, least significant first,   *)
(* because TLC's integers are 32 bits wide.                                *)
(***************************************************************************)
LimbBits == 14
Limb == 2 ^ LimbBits

Pow2(k) == 2 ^ k

\* limb i (1-based) of a limb tuple, 0 beyond its length
LimbAt(p, i) == IF i \in 1..Len(p) THEN p[i] ELSE 0

\* the exact 8-limb product of two 4-limb mantissas (schoolbook, with carry)
RECURSIVE MulCarry(_, _, _, _)
MulCarry(a, b, k, carry) ==
  IF k > 8 THEN << >>
  ELSE LET col == carry + LimbAt(a, 1) * LimbAt(b, k)
                        + LimbAt(a, 2) * LimbAt(b, k - 1)
                        + LimbAt(a, 3) * LimbAt(b, k - 2)
                        + LimbAt(a, 4) * LimbAt(b, k - 3)
       IN  << col % Limb >> \o MulCarry(a, b, k + 1, col \div Limb)

MulLimbs(a, b) == MulCarry(a, b, 1, 0)

\* number of significant bits of a limb, and of a limb tuple
BitLenLimb(x) == IF x = 0 THEN 0 ELSE CHOOSE k \in 1..LimbBits : Pow2(k - 1) <= x /\ x < Pow2(k)

TopLimb(p) == IF \A i \in 1..Len(p) : p[i] = 0 THEN 0
              ELSE CHOOSE i \in 1..Len(p) : p[i] # 0 /\ \A j \in (i + 1)..Len(p) : p[j] = 0

BitLen(p) == IF TopLimb(p) = 0 THEN 0
             ELSE (TopLimb(p) - 1) * LimbBits + BitLenLimb(p[TopLimb(p)])

\* bit i (0-based) of a limb tuple
BitAt(p, i) == (LimbAt(p, (i \div LimbBits) + 1) \div Pow2(i % LimbBits)) % 2

\* whether any of the bits 0..k-1 of a limb tuple is set
LowBitsSet(p, k) ==
  \/ \E j \in 1..Len(p) : j <= k \div LimbBits /\ p[j] # 0
  \/ LimbAt(p, (k \div LimbBits) + 1) % Pow2(k % LimbBits) # 0

\* the limb tuple shifted right by s bits, as 4 limbs
ShiftRight(p, s) ==
  LET q == s \div LimbBits
      r == s % LimbBits
  IN  [j \in 1..4 |->
         (LimbAt(p, j + q) \div Pow2(r))
         + (LimbAt(p, j + q + 1) % Pow2(r)) * Pow2(LimbBits - r)]

\* a 4-limb mantissa plus one (no carry out of the fourth limb is dropped:
\* the caller renormalises 2^53)
RECURSIVE IncFrom(_, _)
IncFrom(m, i) ==
  IF i > 4 THEN m
  ELSE IF m[i] + 1 < Limb THEN [m EXCEPT ![i] = m[i] + 1]
       ELSE IF i = 4 THEN [m EXCEPT ![i] = m[i] + 1]
            ELSE IncFrom([m EXCEPT ![i] = 0], i + 1)

IncLimbs(m) == IncFrom(m, 1)

\* round an exact natural p * 2^e to 53 significant bits, ties to even
RoundDouble(p, e) ==
  LET len == BitLen(p)
      s == IF len > 53 THEN len - 53 ELSE 0
      kept == ShiftRight(p, s)
      guard == IF s = 0 THEN 0 ELSE BitAt(p, s - 1)
      sticky == IF s = 0 THEN FALSE ELSE LowBitsSet(p, s - 1)
      up == guard = 1 /\ (sticky \/ kept[1] % 2 = 1)
      inc == IF up THEN IncLimbs(kept) ELSE kept
  IN  IF inc[4] = Pow2(53 - 3 * LimbBits)
      THEN [m |-> << 0, 0, 0, Pow2(52 - 3 * LimbBits) >>, e |-> e + s + 1]
      ELSE [m |-> inc, e |-> e + s]

\* x * y on doubles
MulDouble(x, y) == RoundDouble(MulLimbs(x.m, y.m), x.e + y.e)

\* int -> float conversion of a length (exact below 2^28)
IntToDouble(n) == [m |-> << n % Limb, n \div Limb, 0, 0 >>, e |-> 0]

\* the integer value of a 4-limb tuple known to be below 2^31
LimbsToInt(m) == m[1] + m[2] * Limb + m[3] * Limb * Limb

\* math.floor and math.ceil of a non-negative double below 2^31
IntPart(x) == IF -(x.e) >= 56 THEN 0 ELSE LimbsToInt(ShiftRight(x.m, -(x.e)))

HasFraction(x) == x.e < 0 /\ LowBitsSet(x.m, -(x.e))

Floor(x) == IF x.e >= 0 THEN LimbsToInt(x.m) * Pow2(x.e) ELSE IntPart(x)

Ceil(x) == IF x.e >= 0 THEN LimbsToInt(x.m) * Pow2(x.e)
           ELSE IntPart(x) + (IF HasFraction(x) THEN 1 ELSE 0)

\* the literals of get_dataset and the used_data values explored
Double09 == [m |-> << 3277, 13107, 3276, 1843 >>, e |-> -53]   \* 0.9
Double01 == [m |-> << 3277, 13107, 3276, 819 >>, e |-> -55]    \* 0.1
Double10 == [m |-> << 1, 0, 0, 0 >>, e |-> 0]                  \* 1.0 (default)
Double05 == [m |-> << 1, 0, 0, 0 >>, e |-> -1]                 \* 0.5
Double07 == [m |-> << 13107, 3276, 13107, 716 >>, e |-> -52]   \* 0.7
Double03 == [m |-> << 13107, 3276, 13107, 1228 >>, e |-> -54]  \* 0.3
Double075 == [m |-> << 3, 0, 0, 0 >>, e |-> -2]                \* 0.75


UsedDataValues == { Double10, Double05 }
SplitUsedDataValues == { Double10, Double05, Double07, Double03, Double075, Double01, Double09 }

(***************************************************************************)
(* State.                                                                  *)
(***************************************************************************)
VARIABLES
  name, trainval_len, test_len, used_data, batch_size,  \* get_dataset's inputs
  epochs, eval_every_n_epochs,                          \* train's inputs
  arch, kwargs, net,                                    \* create_network's inputs and result
  pc, raised,                                           \* position of the run, exception raised
  split, data_loaders,                                  \* get_dataset's counts and its result
  range_next, epoch, phase_next, phase, batch_next, x_len,  \* train's loop variables
  training, params, optimizer,                          \* net's mode flag, its parameters, the optimizer
  metrics, timer, animator, checkpoints, output

inputs == << name, trainval_len, test_len, used_data, batch_size, epochs,
             eval_every_n_epochs, arch, kwargs >>
loops == << range_next, epoch, phase_next, phase, batch_next, x_len >>
vars == << inputs, net, pc, raised, split, data_loaders, loops, training, params,
           optimizer, metrics, timer, animator, checkpoints, output >>

NoNet == [arch |-> "none", widths |-> << >>]

NoException == [type |-> "none", at |-> "none"]

\* an exception leaves the function: nothing in the file catches it
RaiseRetrying(type) ==
  /\ raised' = [type |-> type, at |-> pc]
  /\ pc' = pc

Raise(type) ==
  /\ raised' = [type |-> type, at |-> pc]
  /\ pc' = "aborted"

(***************************************************************************)
(* get_dataset                                                             *)
(***************************************************************************)
DatasetNames == { "mnist", "fashionmnist" }

TrainDataCountCeil(len, used) == Ceil(MulDouble(MulDouble(Double09, IntToDouble(len)), used))

TrainDataCount(len, used) == Floor(MulDouble(MulDouble(Double09, IntToDouble(len)), used))

ValidationDataCount(len, used) == Ceil(MulDouble(MulDouble(Double01, IntToDouble(len)), used))

TestCount(len, used) == Ceil(MulDouble(IntToDouble(len), used))

NoSplit == [train_data_count |-> 0, validation_data_count |-> 0, unused_data_count |-> 0,
            test_count |-> 0, test_unused_data_count |-> 0]

NoLoaders == [train |-> 0, val |-> 0, test |-> 0]

\* torch.utils.data.random_split accepts lengths that are non-negative and
\* sum to the length of the dataset
RandomSplitAccepts(len, lengths) ==
  /\ \A i \in 1..Len(lengths) : lengths[i] >= 0
  /\ LET RECURSIVE Sum(_)
         Sum(i) == IF i = 0 THEN 0 ELSE lengths[i] + Sum(i - 1)
     IN  Sum(Len(lengths)) = len

GetDatasetCounts ==
  LET t == TrainDataCount(trainval_len, used_data)
      v == ValidationDataCount(trainval_len, used_data)
      c == TestCount(test_len, used_data)
  IN  [train_data_count |-> t, validation_data_count |-> v,
       unused_data_count |-> trainval_len - t - v,
       test_count |-> c, test_unused_data_count |-> test_len - c]

GetDataset ==
  /\ pc = "get_dataset"
  /\ UNCHANGED << inputs, net, loops, training, params, optimizer, metrics, timer,
                  animator, checkpoints, output >>
  /\ IF name \notin DatasetNames
     THEN /\ Raise("ValueError")
          /\ UNCHANGED << split, data_loaders >>
     ELSE \E s \in { GetDatasetCounts } :
              /\ split' = s
              /\ IF /\ RandomSplitAccepts(trainval_len, << s.train_data_count,
                                                         s.validation_data_count,
                                                         s.unused_data_count >>)
                    /\ RandomSplitAccepts(test_len, << s.test_count, s.test_unused_data_count >>)
                 THEN \/ /\ data_loaders' = [train |-> s.train_data_count,
                                              val |-> s.validation_data_count,
                                              test |-> s.test_count]
                         /\ pc' = "train"
                         /\ UNCHANGED raised
                      \* DataLoader(train_data, batch_size, shuffle=True) builds a
                      \* RandomSampler, which library versions may refuse for an
                      \* empty dataset
                      \/ /\ s.train_data_count = 0
                         /\ Raise("ValueError")
                         /\ UNCHANGED data_loaders
                 ELSE /\ Raise("ValueError")
                      /\ UNCHANGED data_loaders

\* DataLoader: the number of batches of a partition and the length of batch i
NumBatches(count, size) == (count + size - 1) \div size

BatchLen(count, size, i) == IF (i + 1) * size <= count THEN size ELSE count - i * size

(***************************************************************************)
(* evaluate_loss and evaluate                                              *)
(***************************************************************************)
\* evaluate_loss adds (reduce_sum(loss), size(loss)) once per batch and
\* returns metric[0] / metric[1]; loss_fn returns a scalar (train calls
\* loss.backward() on it), so metric[1] ends as the number of batches
EvaluateLossCount(count) == NumBatches(count, batch_size)

\* d2l.evaluate_accuracy_gpu(net, ...) puts an nn.Module in evaluation mode
\* (net.eval()) before it iterates, and never restores the mode
ModeAfterEvaluate(mode) == FALSE

\* the (loss, accuracy) pairs evaluate can return: opaque numbers of the
\* framework, drawn from a small set
EvaluateResults == { << 1, 0 >>, << 0, 1 >> }

(***************************************************************************)
(* train                                                                   *)
(***************************************************************************)
Phases == << "train", "val" >>

Accumulator3Stale == IF metrics.bound THEN metrics.train ELSE << 0, 0, 0 >>

\* d2l.Accumulator(3)
Accumulator3 == << 0, 0, 0 >>

AccumulatorAdd(a, x, y, z) == << a[1] + x, a[2] + y, a[3] + z >>

NoMetrics == [bound |-> FALSE, train |-> << 0, 0, 0 >>, val |-> << 0, 0, 0 >>]

\* line 149: the val phase is skipped unless the epoch is on the cadence
ValSkippedNever(ph, e, n) == FALSE

ValSkipped(ph, e, n) == ph = "val" /\ ~(e % n = 0)

\* line 174: a checkpoint is due at the end of an epoch on the cadence
CheckpointDueAfter(e, n) == (e + 1) % n = 0

CheckpointDue(e, n) == e % n = 0

\* line 164: only the train phase back-propagates
BackpropagatesAlways(ph) == TRUE

Backpropagates(ph) == ph = "train"

\* lines 134-142: net.to(device), the optimizer, the animator, the timers
TrainSetup ==
  /\ pc = "train"
  /\ optimizer' = [zero_grad |-> 0, backward |-> 0, step |-> 0]
  /\ animator' = << >>
  /\ timer' = [train |-> FALSE, val |-> FALSE]
  /\ range_next' = 0
  /\ pc' = "for_epoch"
  /\ UNCHANGED << inputs, net, raised, split, data_loaders, epoch, phase_next, phase,
                  batch_next, x_len, training, params, metrics, checkpoints, output >>

\* lines 144-146: the next epoch of range(epochs), with fresh accumulators
EpochNext ==
  /\ pc = "for_epoch"
  /\ range_next < epochs
  /\ epoch' = range_next
  /\ range_next' = range_next + 1
  /\ metrics' = [bound |-> TRUE, train |-> Accumulator3, val |-> Accumulator3]
  /\ phase_next' = 1
  /\ pc' = "for_phase"
  /\ UNCHANGED << inputs, net, raised, split, data_loaders, phase, batch_next, x_len,
                  training, params, optimizer, timer, animator, checkpoints, output >>

\* line 144: range(epochs) is exhausted
EpochsDone ==
  /\ pc = "for_epoch"
  /\ range_next >= epochs
  /\ pc' = "evaluate_test"
  /\ UNCHANGED << inputs, net, raised, split, data_loaders, loops, training, params,
                  optimizer, metrics, timer, animator, checkpoints, output >>

\* lines 148-150: the val phase of an epoch off the cadence is skipped
PhaseSkip ==
  /\ pc = "for_phase"
  /\ phase_next <= Len(Phases)
  /\ ValSkipped(Phases[phase_next], epoch, eval_every_n_epochs)
  /\ phase' = Phases[phase_next]
  /\ phase_next' = phase_next + 1
  /\ UNCHANGED << inputs, net, pc, raised, split, data_loaders, range_next, epoch,
                  batch_next, x_len, training, params, optimizer, metrics, timer,
                  animator, checkpoints, output >>

\* lines 148-154: a phase is entered, net.train(phase == 'train')
PhaseEnter ==
  /\ pc = "for_phase"
  /\ phase_next <= Len(Phases)
  /\ ~ValSkipped(Phases[phase_next], epoch, eval_every_n_epochs)
  /\ phase' = Phases[phase_next]
  /\ phase_next' = phase_next + 1
  /\ training' = (Phases[phase_next] = "train")
  /\ batch_next' = 0
  /\ pc' = "for_batch"
  /\ UNCHANGED << inputs, net, raised, split, data_loaders, range_next, epoch, x_len,
                  params, optimizer, metrics, timer, animator, checkpoints, output >>

\* line 148: both phases are over
PhasesDone ==
  /\ pc = "for_phase"
  /\ phase_next > Len(Phases)
  /\ pc' = "epoch_end"
  /\ UNCHANGED << inputs, net, raised, split, data_loaders, loops, training, params,
                  optimizer, metrics, timer, animator, checkpoints, output >>

\* lines 154-158: the next batch of the phase's loader, the timer starts
BatchNext ==
  /\ pc = "for_batch"
  /\ batch_next < NumBatches(data_loaders[phase], batch_size)
  /\ x_len' = BatchLen(data_loaders[phase], batch_size, batch_next)
  /\ batch_next' = batch_next + 1
  /\ timer' = [timer EXCEPT ![phase] = TRUE]
  /\ pc' = "forward"
  /\ UNCHANGED << inputs, net, raised, split, data_loaders, range_next, epoch,
                  phase_next, phase, training, params, optimizer, metrics, animator,
                  checkpoints, output >>

\* line 154: the loader is exhausted
BatchesDone ==
  /\ pc = "for_batch"
  /\ batch_next >= NumBatches(data_loaders[phase], batch_size)
  /\ pc' = "for_phase"
  /\ UNCHANGED << inputs, net, raised, split, data_loaders, loops, training, params,
                  optimizer, metrics, timer, animator, checkpoints, output >>

\* lines 160-164: the forward pass and the loss
Forward ==
  /\ pc = "forward"
  /\ pc' = IF Backpropagates(phase) THEN "zero_grad" ELSE "evaluate"
  /\ UNCHANGED << inputs, net, raised, split, data_loaders, loops, training, params,
                  optimizer, metrics, timer, animator, checkpoints, output >>

\* line 165: optimizer.zero_grad()
ZeroGrad ==
  /\ pc = "zero_grad"
  /\ optimizer' = [optimizer EXCEPT !.zero_grad = @ + 1]
  /\ pc' = "backward"
  /\ UNCHANGED << inputs, net, raised, split, data_loaders, loops, training, params,
                  metrics, timer, animator, checkpoints, output >>

\* line 166: loss.backward()
Backward ==
  /\ pc = "backward"
  /\ optimizer' = [optimizer EXCEPT !.backward = @ + 1]
  /\ pc' = "step"
  /\ UNCHANGED << inputs, net, raised, split, data_loaders, loops, training, params,
                  metrics, timer, animator, checkpoints, output >>

\* line 167: optimizer.step() writes the parameters
OptimizerStep ==
  /\ pc = "step"
  /\ optimizer' = [optimizer EXCEPT !.step = @ + 1]
  /\ params' = params + 1
  /\ pc' = "evaluate"
  /\ UNCHANGED << inputs, net, raised, split, data_loaders, loops, training, metrics,
                  timer, animator, checkpoints, output >>

\* lines 169-172: evaluate on the whole partition of the phase, one add to
\* the phase's accumulator, the timer stops
EvaluateBatch ==
  /\ pc = "evaluate"
  /\ training' = IF EvaluateLossCount(data_loaders[phase]) = 0 THEN training
                 ELSE ModeAfterEvaluate(training)
  /\ UNCHANGED << inputs, net, split, data_loaders, loops, params, optimizer, animator,
                  checkpoints, output >>
  /\ IF EvaluateLossCount(data_loaders[phase]) = 0
     THEN /\ Raise("ZeroDivisionError")
          /\ UNCHANGED << metrics, timer >>
     ELSE \E r \in EvaluateResults :
            /\ metrics' = [metrics EXCEPT
                 ![phase] = AccumulatorAdd(@, r[1] * x_len, r[2] * x_len, x_len)]
            /\ timer' = [timer EXCEPT ![phase] = FALSE]
            /\ pc' = "for_batch"
            /\ UNCHANGED raised

\* lines 175 and 196: the path of a checkpoint
ModelFileName == "lenet"

CheckpointPath(tag) == "checkpoints/model-" \o ModelFileName \o "-" \o tag \o ".pth"

\* torch.save(net.state_dict(), path)
TorchSave(path) == checkpoints' = Append(checkpoints, [path |-> path, state_dict |-> params])

\* lines 174-176: on the cadence, the periodic checkpoint is written
SaveCheckpoint ==
  /\ pc = "epoch_end"
  /\ CheckpointDue(epoch, eval_every_n_epochs)
  /\ TorchSave(CheckpointPath(ToString(epoch)))
  /\ pc' = "record_all"
  /\ UNCHANGED << inputs, net, raised, split, data_loaders, loops, training, params,
                  optimizer, metrics, timer, animator, output >>

\* lines 178-183: the four curves are recorded at x = epoch + 1
RecordAll ==
  /\ pc = "record_all"
  /\ UNCHANGED << inputs, net, split, data_loaders, loops, training, params, optimizer,
                  metrics, timer, checkpoints, output >>
  /\ IF metrics.train[3] = 0 \/ metrics.val[3] = 0
     THEN /\ Raise("ZeroDivisionError")
          /\ UNCHANGED animator
     ELSE /\ animator' = Append(animator, [x |-> epoch + 1, curves |-> 4])
          /\ pc' = "for_epoch"
          /\ UNCHANGED raised

\* lines 184-188: off the cadence, the two train curves are recorded
RecordTrain ==
  /\ pc = "epoch_end"
  /\ ~CheckpointDue(epoch, eval_every_n_epochs)
  /\ UNCHANGED << inputs, net, split, data_loaders, loops, training, params, optimizer,
                  metrics, timer, checkpoints, output >>
  /\ IF metrics.train[3] = 0
     THEN /\ Raise("ZeroDivisionError")
          /\ UNCHANGED animator
     ELSE /\ animator' = Append(animator, [x |-> epoch + 1, curves |-> 2])
          /\ pc' = "for_epoch"
          /\ UNCHANGED raised

\* evaluate(net, data_loaders[part], loss_fn, device) after the loop
EvaluateFinal(part, then) ==
  /\ training' = IF EvaluateLossCount(data_loaders[part]) = 0 THEN training
                 ELSE ModeAfterEvaluate(training)
  /\ UNCHANGED << inputs, net, split, data_loaders, loops, params, optimizer, metrics,
                  timer, animator, checkpoints, output >>
  /\ IF EvaluateLossCount(data_loaders[part]) = 0
     THEN Raise("ZeroDivisionError")
     ELSE /\ pc' = then
          /\ UNCHANGED raised

\* line 190
EvaluateTest == pc = "evaluate_test" /\ EvaluateFinal("test", "evaluate_val")

\* line 191
EvaluateVal == pc = "evaluate_val" /\ EvaluateFinal("val", "train_means")

\* lines 193-194: the train means of the last epoch's accumulator; metrics
\* is bound only by the body of the epoch loop
TrainMeans ==
  /\ pc = "train_means"
  /\ UNCHANGED << inputs, net, split, data_loaders, loops, training, params, optimizer,
                  metrics, timer, animator, checkpoints, output >>
  /\ IF ~metrics.bound
     THEN Raise("UnboundLocalError")
     ELSE IF metrics.train[3] = 0
          THEN Raise("ZeroDivisionError")
          ELSE /\ pc' = "save_final"
               /\ UNCHANGED raised

\* lines 196-197: the final checkpoint
SaveFinal ==
  /\ pc = "save_final"
  /\ TorchSave(CheckpointPath("final"))
  /\ pc' = "print"
  /\ UNCHANGED << inputs, net, raised, split, data_loaders, loops, training, params,
                  optimizer, metrics, timer, animator, output >>

\* lines 199-201: the summary line
PrintSummary ==
  /\ pc = "print"
  /\ output' = Append(output, "summary")
  /\ pc' = "done"
  /\ UNCHANGED << inputs, net, raised, split, data_loaders, loops, training, params,
                  optimizer, metrics, timer, animator, checkpoints >>

\* the steps that call into the framework, and the error such a call raises
\* when it fails (device or shape mismatch, a checkpoint that cannot be written)
CollaboratorSteps == { "train", "forward", "backward", "step", "evaluate", "epoch_end",
                       "evaluate_test", "evaluate_val", "save_final" }

CollaboratorErrors == { "RuntimeError", "OSError" }

CollaboratorFails ==
  /\ pc \in CollaboratorSteps
  /\ pc = "epoch_end" => CheckpointDue(epoch, eval_every_n_epochs)
  /\ Raise(IF pc \in { "epoch_end", "save_final" } THEN "OSError" ELSE "RuntimeError")
  /\ UNCHANGED << inputs, net, split, data_loaders, loops, training, params, optimizer,
                  metrics, timer, animator, checkpoints, output >>

(***************************************************************************)
(* The run: get_dataset, then train on its loaders.                        *)
(***************************************************************************)
InitRun ==
  /\ raised = NoException
  /\ net = NoNet
  /\ split = NoSplit
  /\ data_loaders = NoLoaders
  /\ range_next = 0
  /\ epoch = 0
  /\ phase_next = 1
  /\ phase = "none"
  /\ batch_next = 0
  /\ x_len = 0
  /\ training = TRUE
  /\ params = 0
  /\ optimizer = [zero_grad |-> 0, backward |-> 0, step |-> 0]
  /\ metrics = NoMetrics
  /\ timer = [train |-> FALSE, val |-> FALSE]
  /\ animator = << >>
  /\ checkpoints = << >>
  /\ output = << >>

Init ==
  /\ InitRun
  /\ pc = "get_dataset"
  /\ name \in { "mnist", "not_a_dataset" }
  /\ trainval_len \in 1..MaxN
  /\ test_len \in 1..MaxTestN
  /\ used_data \in UsedDataValues
  /\ batch_size \in 1..MaxBatchSize
  /\ epochs \in 0..MaxEpochs
  /\ eval_every_n_epochs \in 1..MaxEvalEvery
  /\ arch = "lenet"
  /\ kwargs = << >>

Next ==
  \/ GetDataset
  \/ TrainSetup
  \/ EpochNext
  \/ EpochsDone
  \/ PhaseSkip
  \/ PhaseEnter
  \/ PhasesDone
  \/ BatchNext
  \/ BatchesDone
  \/ Forward
  \/ ZeroGrad
  \/ Backward
  \/ OptimizerStep
  \/ EvaluateBatch
  \/ SaveCheckpoint
  \/ RecordAll
  \/ RecordTrain
  \/ EvaluateTest
  \/ EvaluateVal
  \/ TrainMeans
  \/ SaveFinal
  \/ PrintSummary
  \/ CollaboratorFails

Spec == Init /\ [][Next]_vars

(***************************************************************************)
(* get_dataset alone, over a wider range of lengths and fractions.         *)
(***************************************************************************)
MnistTrainLen == 60000
MnistTestLen == 10000

InitDataset ==
  /\ InitRun
  /\ pc = "get_dataset"
  /\ name \in DatasetNames \cup { "not_a_dataset" }
  /\ trainval_len \in (1..MaxSplitN) \cup { MnistTrainLen }
  /\ test_len \in (1..MaxTestN) \cup { MnistTestLen }
  /\ used_data \in SplitUsedDataValues
  /\ batch_size = 60
  /\ epochs = 1
  /\ eval_every_n_epochs = 1
  /\ arch = "lenet"
  /\ kwargs = << >>

NextDataset == GetDataset

SpecDataset == InitDataset /\ [][NextDataset]_vars

(***************************************************************************)
(* create_network                                                          *)
(***************************************************************************)
ArchNames == { "lenet", "arch2", "resnet", "" }

KeywordNames == { "num_classes", "hidden", "dropout" }

KeywordSets == UNION { [K -> 1..MaxClasses] : K \in SUBSET KeywordNames }

\* a call f(**kwargs) binds the keywords f declares; any other keyword is a
\* TypeError raised by the call itself
AcceptsAnyKeywords(parameters, kw) == TRUE

AcceptsKeywords(parameters, kw) == DOMAIN kw \subseteq parameters

\* lines 63-70: create_lenet(num_classes=10)
CreateLenet(kw) ==
  LET num_classes == IF "num_classes" \in DOMAIN kw THEN kw["num_classes"] ELSE 10
  IN  [arch |-> "lenet", widths |-> << 300, 100, num_classes >>]

\* lines 77-85, with create_lenet (63-70) and create_arch2 (73-74)
CreateNetwork ==
  /\ pc = "create_network"
  /\ UNCHANGED << inputs, split, data_loaders, loops, training, params, optimizer,
                  metrics, timer, animator, checkpoints, output >>
  /\ IF arch = "lenet"
     THEN IF AcceptsKeywords({ "num_classes" }, kwargs)
          THEN /\ net' = CreateLenet(kwargs)
               /\ pc' = "returned"
               /\ UNCHANGED raised
          ELSE /\ Raise("TypeError")
               /\ UNCHANGED net
     ELSE /\ UNCHANGED net
          /\ IF arch = "arch2"
             THEN IF AcceptsKeywords({}, kwargs)
                  THEN Raise("NotImplementedError")
                  ELSE Raise("TypeError")
             ELSE Raise("ValueError")

InitFactory ==
  /\ InitRun
  /\ pc = "create_network"
  /\ arch \in ArchNames
  /\ kwargs \in KeywordSets
  /\ name = "mnist"
  /\ trainval_len = 1
  /\ test_len = 1
  /\ used_data = Double10
  /\ batch_size = 1
  /\ epochs = 1
  /\ eval_every_n_epochs = 1

NextFactory == CreateNetwork

SpecFactory == InitFactory /\ [][NextFactory]_vars


(***************************************************************************)
(* Properties.                                                             *)
(***************************************************************************)
\* the paths written so far, in the order of the writes
RECURSIVE PathsOf(_)
PathsOf(cs) == IF cs = << >> THEN << >> ELSE << Head(cs).path >> \o PathsOf(Tail(cs))

\* the periodic checkpoint paths of the epochs 0..k-1 under cadence n
RECURSIVE PeriodicPaths(_, _)
PeriodicPaths(k, n) ==
  IF k = 0 THEN << >>
  ELSE PeriodicPaths(k - 1, n)
       \o (IF (k - 1) % n = 0
           THEN << "checkpoints/model-lenet-" \o ToString(k - 1) \o ".pth" >>
           ELSE << >>)

FinalPath == "checkpoints/model-lenet-final.pth"

InBatch == pc \in { "forward", "zero_grad", "backward", "step", "evaluate" }
InEpoch == InBatch \/ pc \in { "for_phase", "for_batch", "epoch_end", "record_all" }
AfterLoop == pc \in { "evaluate_test", "evaluate_val", "train_means", "save_final",
                      "print", "done" }

\* C1: once get_dataset has computed its counts for a recognized dataset of
\* length N and a fraction used_data, the train, validation and discarded
\* counts are all non-negative and sum to N (so random_split accepts them),
\* the test count is within the test set, and for the fractions that are
\* exact in binary (1, 1/2, 3/4) the train count is floor(9*N*u/10) and the
\* validation count is ceil(N*u/10) of exact arithmetic.
SplitIsPartition ==
  (pc # "get_dataset" /\ name \in DatasetNames) =>
    /\ split.train_data_count >= 0
    /\ split.validation_data_count >= 0
    /\ split.unused_data_count >= 0
    /\ split.train_data_count + split.validation_data_count + split.unused_data_count
         = trainval_len
    /\ split.train_data_count + split.validation_data_count <= trainval_len
    /\ split.test_count >= 1 /\ split.test_count <= test_len
    /\ split.test_count + split.test_unused_data_count = test_len
    /\ (raised # NoException => split.train_data_count = 0)
    /\ \A u \in { << Double10, 1, 1 >>, << Double05, 1, 2 >>, << Double075, 3, 4 >> } :
         used_data = u[1] =>
           /\ 10 * u[3] * split.train_data_count <= 9 * trainval_len * u[2]
           /\ 9 * trainval_len * u[2] < 10 * u[3] * (split.train_data_count + 1)
           /\ trainval_len * u[2] <= 10 * u[3] * split.validation_data_count
           /\ 10 * u[3] * (split.validation_data_count - 1) < trainval_len * u[2]

\* C1 witness: 30 samples at used_data = 0.7 are split 18 / 3 / 9
SplitWitness ==
  /\ pc = "train"
  /\ trainval_len = 30 /\ used_data = Double07
  /\ split.train_data_count = 18
  /\ split.validation_data_count = 3
  /\ split.unused_data_count = 9

\* C2: at every epoch boundary, and when the run is complete, the periodic
\* checkpoints written are exactly those of the epochs e already run with
\* e mod eval_every_n_epochs = 0, each once, in increasing order of e.
PeriodicCheckpointsExact ==
  /\ pc = "for_epoch" => PathsOf(checkpoints) = PeriodicPaths(range_next, eval_every_n_epochs)
  /\ pc = "done" =>
       PathsOf(checkpoints) = PeriodicPaths(epochs, eval_every_n_epochs) \o << FinalPath >>

\* C2 witness: a complete run of two epochs with cadence two wrote -0.pth only
PeriodicCheckpointsWitness ==
  /\ pc = "done" /\ epochs = 2 /\ eval_every_n_epochs = 2
  /\ PathsOf(checkpoints) = << "checkpoints/model-lenet-0.pth", FinalPath >>

\* C3: a run of train that has ended without a collaborator failure has
\* written the final checkpoint exactly once, after every periodic
\* checkpoint, and has printed exactly one summary line, for every
\* epochs >= 0 and every cadence.
TerminalStepUnconditional ==
  (pc \in { "done", "aborted" } /\ raised.at # "get_dataset"
     /\ raised.type \notin CollaboratorErrors) =>
    /\ PathsOf(checkpoints) = PeriodicPaths(epochs, eval_every_n_epochs) \o << FinalPath >>
    /\ Len(output) = 1

\* C4: in every epoch the train phase runs, and runs before the val phase;
\* val batches are iterated exactly in the epochs e with
\* e mod eval_every_n_epochs = 0; and the progress tracker holds exactly one
\* record per finished epoch e, at x = e + 1, with four curves when
\* e mod eval_every_n_epochs = 0 and two otherwise.
PhasesAndRecords ==
  /\ animator = [i \in 1..Len(animator) |->
                   [x |-> i, curves |-> IF (i - 1) % eval_every_n_epochs = 0 THEN 4 ELSE 2]]
  /\ InEpoch => Len(animator) = epoch /\ range_next = epoch + 1
  /\ (pc = "for_epoch" \/ AfterLoop) => Len(animator) = range_next
  /\ (InBatch /\ phase = "val") =>
       /\ epoch % eval_every_n_epochs = 0
       /\ metrics.train[3] = data_loaders.train
  /\ (InBatch /\ phase = "train") => metrics.val = << 0, 0, 0 >>
  /\ pc \in { "epoch_end", "record_all" } =>
       /\ metrics.train[3] = data_loaders.train
       /\ (metrics.val[3] > 0) = (epoch % eval_every_n_epochs = 0)
  /\ pc = "record_all" => epoch % eval_every_n_epochs = 0

\* C4 witness: two epochs with cadence two left a record of four curves at
\* x = 1 and a record of two curves at x = 2
PhasesAndRecordsWitness ==
  /\ eval_every_n_epochs = 2
  /\ animator = << [x |-> 1, curves |-> 4], [x |-> 2, curves |-> 2] >>

\* what a raised exception leaves behind
AbortLeaves ==
  raised # NoException =>
    /\ pc = "aborted"
    /\ output = << >>
    /\ PathsOf(checkpoints)
         = PeriodicPaths(IF raised.at \in { "get_dataset", "train" } THEN 0
                         ELSE IF raised.at = "record_all" THEN epoch + 1
                         ELSE IF raised.at \in { "evaluate_test", "evaluate_val",
                                                 "train_means", "save_final" } THEN epochs
                         ELSE epoch,
                         eval_every_n_epochs)

\* C6: once a step has raised, the run is aborted and nothing changes any
\* more: no batch, no checkpoint, no summary line; the checkpoints on disk
\* are the periodic ones written before the failure (those of the epochs
\* e < k on the cadence when the write at the end of epoch k fails) and
\* never the final one.
FailuresAbort == [] AbortLeaves /\ [][raised # NoException => UNCHANGED vars]_vars

\* C6 witness: the write at the end of epoch 1 failed; -0.pth is on disk
FailuresAbortWitness ==
  /\ raised = [type |-> "OSError", at |-> "epoch_end"]
  /\ epoch = 1
  /\ PathsOf(checkpoints) = << "checkpoints/model-lenet-0.pth" >>

\* the optimizer steps a run has applied when it is at pc
StepsSoFar ==
  IF pc \in { "get_dataset", "train" } THEN 0
  ELSE IF AfterLoop \/ pc = "for_epoch"
       THEN range_next * ((data_loaders.train + batch_size - 1) \div batch_size)
       ELSE epoch * ((data_loaders.train + batch_size - 1) \div batch_size)
            + (IF phase = "train" /\ pc \notin { "for_phase", "epoch_end", "record_all" }
               THEN (IF pc \in { "for_batch", "evaluate" } THEN batch_next ELSE batch_next - 1)
               ELSE IF pc = "for_phase" /\ phase_next = 1 THEN 0
               ELSE (data_loaders.train + batch_size - 1) \div batch_size)

\* the step the run is at, or was at when it raised
Where == IF pc = "aborted" THEN raised.at ELSE pc

ParamsFrame ==
  /\ params = optimizer.step
  /\ optimizer.backward = optimizer.step + (IF Where = "step" THEN 1 ELSE 0)
  /\ optimizer.zero_grad = optimizer.step + (IF Where \in { "backward", "step" } THEN 1 ELSE 0)
  /\ pc # "aborted" => params = StepsSoFar
  /\ \A i \in 1..Len(checkpoints) :
       checkpoints[i].state_dict
         = (IF checkpoints[i].path = FinalPath THEN epochs
            ELSE (i - 1) * eval_every_n_epochs + 1)
           * ((data_loaders.train + batch_size - 1) \div batch_size)

\* C7: the parameters change only by the optimizer step of a train batch,
\* one step per train batch, each after one gradient clear and one
\* back-propagation; a complete run has applied epochs * (number of train
\* batches) steps and its final checkpoint holds the parameters after the
\* last of them; every checkpoint holds the parameters of its epoch's end.
OnlyTrainStepsWrite ==
  [] ParamsFrame
  /\ [][params' # params =>
          /\ pc = "step" /\ phase = "train"
          /\ params' = params + 1]_vars

\* C7 witness: a complete run of two epochs over two train batches applied
\* four steps, and the final checkpoint holds their result
OnlyTrainStepsWitness ==
  /\ pc = "done" /\ epochs = 2 /\ data_loaders.train = 3 /\ batch_size = 2
  /\ params = 4
  /\ checkpoints[Len(checkpoints)] = [path |-> FinalPath, state_dict |-> 4]

\* C8: whenever a batch is in its forward pass or its optimizer step, the
\* model's mode flag matches the phase: training mode in the train phase
\* (for the first batch and for every later one), evaluation mode in the
\* val phase.
ModeMatchesPhase ==
  pc \in { "forward", "zero_grad", "backward", "step" } => training = (phase = "train")

MinOf(a, b) == IF a < b THEN a ELSE b

\* C9: the accumulators of an epoch start at (0, 0, 0), receive one add per
\* batch of their phase, and at the end of the epoch the sample count of a
\* phase that ran is the size of its partition, whatever came before; the
\* val accumulator of an epoch that skips the val phase stays (0, 0, 0).
AccumulatorsPerEpoch ==
  /\ (pc = "for_phase" /\ phase_next = 1) =>
       metrics.train = << 0, 0, 0 >> /\ metrics.val = << 0, 0, 0 >>
  /\ pc = "for_batch" =>
       metrics[phase][3] = MinOf(batch_next * batch_size, data_loaders[phase])
  /\ pc \in { "forward", "zero_grad", "backward", "step", "evaluate" } =>
       /\ metrics[phase][3] = (batch_next - 1) * batch_size
       /\ metrics[phase][3] + x_len <= data_loaders[phase]
       /\ x_len >= 1 /\ x_len <= batch_size
  /\ pc \in { "epoch_end", "record_all" } =>
       /\ metrics.train[3] = data_loaders.train
       /\ metrics.val = IF epoch % eval_every_n_epochs = 0
                        THEN << metrics.val[1], metrics.val[2], data_loaders.val >>
                        ELSE << 0, 0, 0 >>

\* C9 witness: the second epoch of a run ends with the three train samples
\* counted (batches of 2 and 1) and an untouched val accumulator
AccumulatorsWitness ==
  /\ pc = "epoch_end" /\ epoch = 1 /\ eval_every_n_epochs = 2
  /\ batch_size = 2 /\ data_loaders.train = 3
  /\ metrics.train[3] = 3
  /\ metrics.val = << 0, 0, 0 >>

OutcomeByNameAlone ==
  pc # "create_network" =>
    /\ arch = "lenet" => pc = "returned" /\ raised = NoException /\ net.arch = "lenet"
    /\ arch = "arch2" => raised.type = "NotImplementedError"
    /\ arch \notin { "lenet", "arch2" } => raised.type = "ValueError"
    /\ raised # NoException => net = NoNet

\* C5 (amended): the outcome depends on the name and on the names of the
\* keyword options: 'lenet' returns a network (of num_classes outputs, 10 by
\* default) when every option is num_classes, 'arch2' raises the
\* not-implemented error when no option is passed, either raises a TypeError
\* when passed an option its constructor does not declare, any other name
\* raises the unrecognized-architecture error whatever the options, and an
\* error returns no network.
OutcomeByNameAndKeywords ==
  pc # "create_network" =>
    /\ (arch = "lenet" /\ DOMAIN kwargs \subseteq { "num_classes" }) =>
         /\ pc = "returned" /\ raised = NoException
         /\ net.arch = "lenet"
         /\ net.widths = << 300, 100, IF DOMAIN kwargs = {} THEN 10 ELSE kwargs["num_classes"] >>
    /\ (arch = "lenet" /\ ~(DOMAIN kwargs \subseteq { "num_classes" })) =>
         raised.type = "TypeError"
    /\ (arch = "arch2" /\ DOMAIN kwargs = {}) => raised.type = "NotImplementedError"
    /\ (arch = "arch2" /\ DOMAIN kwargs # {}) => raised.type = "TypeError"
    /\ arch \notin { "lenet", "arch2" } => raised.type = "ValueError"
    /\ raised # NoException => pc = "aborted" /\ net = NoNet

\* C5 witness: 'lenet' called with an option create_lenet does not declare
OutcomeWitness ==
  /\ arch = "lenet" /\ "hidden" \in DOMAIN kwargs
  /\ pc = "aborted" /\ raised.type = "TypeError" /\ net = NoNet
====
